---- MODULE Spec2Model ----
(***************************************************************************)
(* A model of The Rust Raytracer (sethm/raytracer).                        *)
(*                                                                         *)
(*   Spec        the parallel scanline renderer of main(): the spawn loop, *)
(*               the worker threads, the mpsc channel and the consumer's   *)
(*               display loop with its quit handling                       *)
(*   SpecFair    the same with the fairness the OS scheduler gives         *)
(*   SpecWorld   World::hit over Sphere::hit                               *)
(*   SpecColor   the recursion of color()                                  *)
(*   SpecSample  random_in_unit_sphere()                                   *)
(*   SpecSchlick schlick()                                                 *)
(*   SpecSphere  Sphere::hit                                               *)
(*   SpecQuant   the per-pixel averaging, gamma and 8-bit conversion of    *)
(*               render_line()                                             *)
(*                                                                         *)
(* f32 values are modelled exactly, as integers or as fractions over a     *)
(* stated denominator, on inputs where the arithmetic is exact.            *)
(***************************************************************************)
EXTENDS Integers, Sequences, FiniteSets, TLC

VARIABLES
    \* ---- main(): configuration (the consts NX, NY, NUM_THREADS) ----
    nx, ny, num_threads,
    \* ---- main(): the main thread ----
    main_pc,          \* "spawn", "check", "recv", "poll", "exited", "terminated"
    thread_num,       \* the spawn loop's counter
    j,                \* rows the consumer still has to receive
    time_displayed,
    rx_alive,         \* the Receiver has not been dropped
    buffer,           \* the texture's pixel buffer, NY * pitch bytes
    \* ---- the spawned workers and the channel ----
    workers,          \* thread_num -> [state, start_line, end_line, line]
    channel,          \* the mpsc queue of RenderResult
    \* ---- history of the render (not program state) ----
    rendered,         \* line -> sequence of the data render_line produced for it
    arrivals,         \* offsets of the results the consumer received, in order
    writes,           \* per result received, the buffer indexes its bytes were written at
    \* ---- World::hit ----
    w_pc, w_objects, w_ray, w_t_min, w_t_max, w_idx, w_closest_so_far, w_hits, w_result,
    \* ---- color ----
    c_pc, c_scene, c_depth, c_albedo, c_calls, c_ret, c_event,
    \* ---- random_in_unit_sphere ----
    s_pc, s_vec, s_iter,
    \* ---- schlick ----
    k_pc, k_cosine, k_ref_idx, k_result,
    \* ---- render_line's pixel loop ----
    q_pc, q_col, q_sample, q_bytes,
    \* ---- Sphere::hit ----
    h_pc, h_sphere, h_ray, h_t_min, h_t_max, h_result

rvars == <<nx, ny, num_threads, main_pc, thread_num, j, time_displayed, rx_alive,
           buffer, workers, channel, rendered, arrivals, writes>>
wvars == <<w_pc, w_objects, w_ray, w_t_min, w_t_max, w_idx, w_closest_so_far,
           w_hits, w_result>>
cvars == <<c_pc, c_scene, c_depth, c_albedo, c_calls, c_ret, c_event>>
svars == <<s_pc, s_vec, s_iter>>
kvars == <<k_pc, k_cosine, k_ref_idx, k_result>>
qvars == <<q_pc, q_col, q_sample, q_bytes>>
hvars == <<h_pc, h_sphere, h_ray, h_t_min, h_t_max, h_result>>
vars == <<rvars, wvars, cvars, svars, kvars, qvars, hvars>>

\* What each part's actions leave alone: the variables of the other parts.
notRenderer == <<wvars, cvars, svars, kvars, qvars, hvars>>
notWorld == <<rvars, cvars, svars, kvars, qvars, hvars>>
notColor == <<rvars, wvars, svars, kvars, qvars, hvars>>
notSample == <<rvars, wvars, cvars, kvars, qvars, hvars>>
notSchlick == <<rvars, wvars, cvars, svars, qvars, hvars>>
notQuant == <<rvars, wvars, cvars, svars, kvars, hvars>>
notSphere == <<rvars, wvars, cvars, svars, kvars, qvars>>

(***************************************************************************)
(* Bounds of the model.                                                    *)
(***************************************************************************)
MaxNX == 2
MaxNY == 4
MaxThreads == 3

\* The variables of a part that a specification does not run.
IdleRenderer ==
    /\ nx = 0 /\ ny = 0 /\ num_threads = 0 /\ main_pc = "idle" /\ thread_num = 0
    /\ j = 0 /\ time_displayed = FALSE /\ rx_alive = FALSE /\ buffer = <<>>
    /\ workers = <<>> /\ channel = <<>> /\ rendered = <<>> /\ arrivals = <<>>
    /\ writes = <<>>
IdleWorld ==
    /\ w_pc = "idle" /\ w_objects = <<>> /\ w_ray = <<>> /\ w_t_min = 0 /\ w_t_max = 0
    /\ w_idx = 0 /\ w_closest_so_far = 0 /\ w_hits = <<>> /\ w_result = <<>>
IdleColor ==
    /\ c_pc = "idle" /\ c_scene = "none" /\ c_depth = 0 /\ c_albedo = 0 /\ c_calls = 0
    /\ c_ret = 0 /\ c_event = "none"
IdleSample ==
    /\ s_pc = "idle" /\ s_vec = <<>> /\ s_iter = 0
IdleSchlick ==
    /\ k_pc = "idle" /\ k_cosine = 0 /\ k_ref_idx = 0 /\ k_result = <<>>
IdleQuant ==
    /\ q_pc = "idle" /\ q_col = <<>> /\ q_sample = 0 /\ q_bytes = <<>>
IdleSphere ==
    /\ h_pc = "idle" /\ h_sphere = <<>> /\ h_ray = <<>> /\ h_t_min = 0 /\ h_t_max = 0
    /\ h_result = <<>>

(***************************************************************************)
(* main(): the parallel scanline renderer.                                 *)
(***************************************************************************)
\* PixelFormatEnum::RGB24.byte_size_per_pixel()
BytesPerPixel == 3

\* let pitch = NX as usize * PixelFormatEnum::RGB24.byte_size_per_pixel();
Pitch(NX) == NX * BytesPerPixel

\* let lines_per_block = NY / NUM_THREADS;
LinesPerBlock(NY, NUM_THREADS) == NY \div NUM_THREADS

\* let start_line = thread_num * lines_per_block;
StartLine(k, NY, NUM_THREADS) == k * LinesPerBlock(NY, NUM_THREADS)

\* let end_line = (thread_num + 1) * lines_per_block;
EndLine(k, NY, NUM_THREADS) == (k + 1) * LinesPerBlock(NY, NUM_THREADS)

\* The bytes of the pixels a line can come out as: what the random samples
\* of a line average to is abstracted by a seed; neighbouring pixels differ.
Palette == << <<255, 128, 0>>, <<10, 20, 30>> >>
Seeds == 0..1
PixelBytes(seed, i) == Palette[((seed + i) % 2) + 1]

\* render_line, were its offset to miss the "- 1".
RenderLineOffByOne(line, seed, NX, NY) ==
    [offset |-> (NY - line) * Pitch(NX),
     data   |-> [n \in 1..(NX * 3) |-> PixelBytes(seed, (n - 1) \div 3)[((n - 1) % 3) + 1]]]

\* render_line: offset = (NY - 1 - line) * pitch, data = ir, ig, ib pushed
\* for every i in 0..NX.
RenderLine(line, seed, NX, NY) ==
    [offset |-> (NY - 1 - line) * Pitch(NX),
     data   |-> [n \in 1..(NX * 3) |-> PixelBytes(seed, (n - 1) \div 3)[((n - 1) % 3) + 1]]]

\* PlaceIndex, were the consumer to trust the arrival count instead.
PlaceIndexByArrival(result, n, jj) == jj * Len(result.data) + n

\* The position the consumer writes byte n of a result at: buffer[result.offset + n].
\* jj is the consumer's row counter at that moment.
PlaceIndex(result, n, jj) == result.offset + n

\* The indexes the blit of a result writes at, byte by byte.
BlitIndexes(result, jj) ==
    [n \in 1..Len(result.data) |-> PlaceIndex(result, n - 1, jj)]

\* texture.with_lock: for n in 0..slice.len() { buffer[result.offset + n] = slice[n] }
\* (buffer is indexed from 0, data from 1)
Blit(buf, result, jj) ==
    [i \in DOMAIN buf |->
        IF \E n \in 0..(Len(result.data) - 1) : PlaceIndex(result, n, jj) = i
        THEN LET n == CHOOSE n \in 0..(Len(result.data) - 1) : PlaceIndex(result, n, jj) = i
             IN  result.data[n + 1]
        ELSE buf[i]]

\* A streaming texture's bytes before any row was written.
Unwritten == -1

InitRenderer ==
    /\ nx \in 1..MaxNX
    /\ ny \in 1..MaxNY
    /\ num_threads \in 1..MaxThreads
    /\ main_pc = "spawn"
    /\ thread_num = 0
    /\ j = ny
    /\ time_displayed = FALSE
    /\ rx_alive = TRUE
    /\ buffer = [i \in 0..(ny * Pitch(nx) - 1) |-> Unwritten]
    /\ workers = [k \in 0..(num_threads - 1) |->
                    [state |-> "unspawned", start_line |-> 0, end_line |-> 0, line |-> 0]]
    /\ channel = <<>>
    /\ rendered = [l \in 0..(ny - 1) |-> <<>>]
    /\ arrivals = <<>>
    /\ writes = <<>>

\* for thread_num in 0..NUM_THREADS { ... thread::spawn(...) }
Spawn ==
    /\ main_pc = "spawn"
    /\ thread_num < num_threads
    /\ LET s == StartLine(thread_num, ny, num_threads)
           e == EndLine(thread_num, ny, num_threads)
       IN  workers' = [workers EXCEPT ![thread_num] =
                         [state |-> IF s < e THEN "running" ELSE "done",
                          start_line |-> s, end_line |-> e, line |-> s]]
    /\ thread_num' = thread_num + 1
    /\ main_pc' = IF thread_num + 1 = num_threads THEN "check" ELSE "spawn"
    /\ UNCHANGED <<nx, ny, num_threads, j, time_displayed, rx_alive, buffer, channel,
                   rendered, arrivals, writes>>
    /\ UNCHANGED notRenderer

\* One iteration of a worker's loop: render_line(line), tx.send(result).unwrap().
\* send fails once the Receiver is dropped, and unwrap then panics the thread.
WorkerStep(k) ==
    /\ workers[k].state = "running"
    /\ \E seed \in Seeds :
        LET line   == workers[k].line
            result == RenderLine(line, seed, nx, ny)
        IN  /\ rendered' = [rendered EXCEPT ![line] = Append(@, result.data)]
            /\ IF rx_alive
               THEN /\ channel' = Append(channel, result)
                    /\ workers' = [workers EXCEPT
                                     ![k].line = line + 1,
                                     ![k].state = IF line + 1 < workers[k].end_line
                                                  THEN "running" ELSE "done"]
               ELSE /\ channel' = channel
                    /\ workers' = [workers EXCEPT ![k].state = "panicked"]
    /\ UNCHANGED <<nx, ny, num_threads, main_pc, thread_num, j, time_displayed,
                   rx_alive, buffer, arrivals, writes>>
    /\ UNCHANGED notRenderer

\* 'running: loop { if j > 0 { j -= 1; ...
MainCheck ==
    /\ main_pc = "check"
    /\ IF j > 0
       THEN /\ j' = j - 1
            /\ main_pc' = "recv"
       ELSE /\ j' = j
            /\ main_pc' = "poll"
    /\ UNCHANGED <<nx, ny, num_threads, thread_num, time_displayed, rx_alive, buffer,
                   workers, channel, rendered, arrivals, writes>>
    /\ UNCHANGED notRenderer

\* let result = rx.recv().unwrap(); (blocks while the queue is empty: main
\* keeps its own Sender, so the channel never disconnects), then the blit.
MainRecv ==
    /\ main_pc = "recv"
    /\ channel # <<>>
    /\ LET result == Head(channel)
       IN  /\ buffer' = Blit(buffer, result, j)
           /\ arrivals' = Append(arrivals, result.offset)
           /\ writes' = Append(writes, BlitIndexes(result, j))
    /\ channel' = Tail(channel)
    /\ main_pc' = "poll"
    /\ UNCHANGED <<nx, ny, num_threads, thread_num, j, time_displayed, rx_alive,
                   workers, rendered>>
    /\ UNCHANGED notRenderer

\* event_pump.poll_iter() yields no quit event; then if j == 0 { ... sleep }
MainPollContinue ==
    /\ main_pc = "poll"
    /\ time_displayed' = (time_displayed \/ j = 0)
    /\ main_pc' = "check"
    /\ UNCHANGED <<nx, ny, num_threads, thread_num, j, rx_alive, buffer, workers,
                   channel, rendered, arrivals, writes>>
    /\ UNCHANGED notRenderer

\* Event::Quit or Escape: break 'running. main returns and its locals, the
\* Receiver among them, are dropped.
MainPollQuit ==
    /\ main_pc = "poll"
    /\ main_pc' = "exited"
    /\ rx_alive' = FALSE
    /\ UNCHANGED <<nx, ny, num_threads, thread_num, j, time_displayed, buffer, workers,
                   channel, rendered, arrivals, writes>>
    /\ UNCHANGED notRenderer

\* The process exits after main returned; threads still running end with it.
ProcessExit ==
    /\ main_pc = "exited"
    /\ main_pc' = "terminated"
    /\ workers' = [k \in DOMAIN workers |->
                     IF workers[k].state = "running"
                     THEN [workers[k] EXCEPT !.state = "killed"]
                     ELSE workers[k]]
    /\ UNCHANGED <<nx, ny, num_threads, thread_num, j, time_displayed, rx_alive, buffer,
                   channel, rendered, arrivals, writes>>
    /\ UNCHANGED notRenderer

Worker == \E k \in DOMAIN workers : WorkerStep(k)

Next ==
    \/ Spawn
    \/ Worker
    \/ MainCheck
    \/ MainRecv
    \/ MainPollContinue
    \/ MainPollQuit
    \/ ProcessExit

Init ==
    /\ InitRenderer
    /\ IdleWorld /\ IdleColor /\ IdleSample /\ IdleSchlick /\ IdleQuant /\ IdleSphere

Spec == Init /\ [][Next]_vars

\* The scheduler gives every thread that can run a turn: the spawn loop, each
\* worker and the consumer's steps are weakly fair. A quit event is up to the
\* user and is not.
SpecFair ==
    /\ Init
    /\ [][Next]_vars
    /\ WF_vars(Spawn)
    /\ \A k \in 0..(MaxThreads - 1) : WF_vars(k \in DOMAIN workers /\ WorkerStep(k))
    /\ WF_vars(MainCheck)
    /\ WF_vars(MainRecv)
    /\ WF_vars(MainPollContinue)

(***************************************************************************)
(* Claims about the renderer.                                              *)
(***************************************************************************)
OffsetOfLine(line) == (ny - 1 - line) * Pitch(nx)

\* How many results for a line the consumer has received.
Delivered(line) ==
    Cardinality({i \in DOMAIN arrivals : arrivals[i] = OffsetOfLine(line)})

\* Every spawned worker ran its block to the end and the queue is drained,
\* with the consumer still in its loop: nothing more will be sent.
RenderOver ==
    /\ main_pc \in {"check", "recv", "poll"}
    /\ \A k \in DOMAIN workers : workers[k].state = "done"
    /\ channel = <<>>

\* C1: when the workers have finished and the queue is drained, every row of
\* [0, NY) was rendered by exactly one worker and received by the consumer
\* exactly once, for every thread count.
C1_EveryRowExactlyOnce ==
    RenderOver =>
        \A line \in 0..(ny - 1) : Len(rendered[line]) = 1 /\ Delivered(line) = 1

\* C2: worker k owns the rows [k * lines_per_block, (k + 1) * lines_per_block)
\* and the last worker also owns the NY mod NUM_THREADS remainder rows, so
\* its block ends at NY.
C2_RemainderToLastBlock ==
    \A k \in DOMAIN workers :
        workers[k].state # "unspawned" =>
            /\ workers[k].start_line = k * (ny \div num_threads)
            /\ workers[k].end_line = IF k = num_threads - 1
                                     THEN ny
                                     ELSE (k + 1) * (ny \div num_threads)

\* The buffer as the results received so far determine it, whatever the
\* order they arrived in: the row of each delivered line holds that line's
\* data, every other byte is untouched.
ExpectedBuffer ==
    [i \in 0..(ny * Pitch(nx) - 1) |->
        LET line == ny - 1 - (i \div Pitch(nx))
        IN  IF Delivered(line) > 0
            THEN rendered[line][1][(i % Pitch(nx)) + 1]
            ELSE Unwritten]

\* C3: the consumer places every result by the offset in the message, so the
\* buffer depends only on which rows were received and on their data, not on
\* the order of arrival.
C3_PlacementIgnoresArrivalOrder == buffer = ExpectedBuffer

\* Witness of C3: a finished render whose rows did not arrive in line order
\* and whose rows differ.
C3_Witness ==
    /\ time_displayed
    /\ Len(arrivals) = ny
    /\ ny >= 2
    /\ arrivals[1] # OffsetOfLine(0)
    /\ \E a, b \in 0..(ny - 1) : rendered[a] # rendered[b]

\* C4: unless a quit event ends the loop, the render runs to completion: the
\* consumer receives all NY rows and reports the time.
C4_RunsToCompletion == <>(time_displayed \/ main_pc = "exited")

\* C5: no worker panics, also not one that sends after the quit.
C5_NoWorkerPanics ==
    \A k \in DOMAIN workers : workers[k].state # "panicked"

(***************************************************************************)
(* hittable.rs: Sphere::hit and World::hit.                                *)
(* Vec3 is a triple; an Option is a sequence of length 0 (None) or 1.      *)
(***************************************************************************)
MaxObjects == 3

\* Vec3::dot
Dot(v1, v2) == v1[1] * v2[1] + v1[2] * v2[2] + v1[3] * v2[3]

\* impl ops::Sub<Vec3> for Vec3
VSub(v1, v2) == <<v1[1] - v2[1], v1[2] - v2[2], v1[3] - v2[3]>>

\* Ray::point_at_parameter: self.a + t * self.b
PointAtParameter(r, t) == <<r.a[1] + t * r.b[1], r.a[2] + t * r.b[2], r.a[3] + t * r.b[3]>>

\* f32::sqrt, on the values where it is exact
IsSquare(n) == \E s \in 0..n : s * s = n
Sqrt(n) == CHOOSE s \in 0..n : s * s = n

\* The terms of Sphere::hit
SphereA(sphere, r) == Dot(r.b, r.b)
SphereB(sphere, r) == Dot(VSub(r.a, sphere.center), r.b)
SphereC(sphere, r) ==
    Dot(VSub(r.a, sphere.center), VSub(r.a, sphere.center)) - sphere.radius * sphere.radius
Discriminant(sphere, r) ==
    SphereB(sphere, r) * SphereB(sphere, r) - SphereA(sphere, r) * SphereC(sphere, r)

\* The inputs on which the model's integer arithmetic is the code's f32
\* arithmetic: the square root and the division by a are exact.
Exact(sphere, r) ==
    Discriminant(sphere, r) > 0 =>
        /\ IsSquare(Discriminant(sphere, r))
        /\ (-SphereB(sphere, r) - Sqrt(Discriminant(sphere, r))) % SphereA(sphere, r) = 0

\* Sphere::hit, were it to fall back on the larger root as well.
SphereHitBothRoots(sphere, object, r, t_min, t_max) ==
    IF Discriminant(sphere, r) > 0
    THEN LET tmp == (-SphereB(sphere, r) - Sqrt(Discriminant(sphere, r)))
                        \div SphereA(sphere, r)
             far == (-SphereB(sphere, r) + Sqrt(Discriminant(sphere, r)))
                        \div SphereA(sphere, r)
         IN  IF tmp < t_max /\ tmp > t_min
             THEN <<[t |-> tmp, p |-> PointAtParameter(r, tmp), object |-> object]>>
             ELSE IF far < t_max /\ far > t_min
                  THEN <<[t |-> far, p |-> PointAtParameter(r, far), object |-> object]>>
                  ELSE <<>>
    ELSE <<>>

\* Sphere::hit. object names the sphere by its place in World.objects. The
\* Hit's normal, (p - center) / radius, is read by no operation modelled here.
SphereHit(sphere, object, r, t_min, t_max) ==
    IF Discriminant(sphere, r) > 0
    THEN LET tmp == (-SphereB(sphere, r) - Sqrt(Discriminant(sphere, r)))
                        \div SphereA(sphere, r)
         IN  IF tmp < t_max /\ tmp > t_min
             THEN <<[t |-> tmp, p |-> PointAtParameter(r, tmp), object |-> object]>>
             ELSE <<>>
    ELSE <<>>

\* The spheres, rays and ranges World::hit is run on.
Spheres ==
    {[center |-> <<x, 0, z>>, radius |-> rad] :
        x \in {0, 3}, z \in {-10, -3}, rad \in {2, 5}}
    \cup {[center |-> <<3, 0, -9>>, radius |-> 5]}
Rays ==
    {[a |-> <<0, 0, 0>>, b |-> <<0, 0, -1>>],
     [a |-> <<0, 0, 4>>, b |-> <<0, 0, -2>>],
     [a |-> <<0, 0, -20>>, b |-> <<0, 0, 1>>]}
TMins == {0, 3}
TMaxs == {8, 1000}

RECURSIVE SeqsOver(_, _)
\* The sequences of at most n distinct elements of S
SeqsOver(S, n) ==
    IF n = 0 THEN {<<>>}
    ELSE LET shorter == SeqsOver(S, n - 1)
         IN  shorter \cup
             {Append(q, x) : q \in {q \in shorter : Len(q) = n - 1},
                             x \in S}

Distinct(q) == \A a, b \in DOMAIN q : a # b => q[a] # q[b]

InitWorld ==
    /\ w_ray \in Rays
    /\ w_objects \in {q \in SeqsOver(Spheres, MaxObjects) :
                        Distinct(q) /\ \A i \in DOMAIN q : Exact(q[i], w_ray)}
    /\ w_t_min \in TMins
    /\ w_t_max \in TMaxs
    /\ w_pc = "loop"
    /\ w_idx = 1
    /\ w_hits = <<>>
    /\ w_closest_so_far = w_t_max
    /\ w_result = <<>>

\* The upper bound World::hit hands to a surface, were it not to shrink.
BoundPassedFixed(closest_so_far, t_max) == t_max

\* The upper bound World::hit hands to a surface: object.hit(r, t_min, closest_so_far)
BoundPassed(closest_so_far, t_max) == closest_so_far

\* One iteration of: for object in &self.objects { ... }
WorldHitStep ==
    /\ w_pc = "loop"
    /\ w_idx <= Len(w_objects)
    /\ LET hit == SphereHit(w_objects[w_idx], w_idx, w_ray, w_t_min,
                            BoundPassed(w_closest_so_far, w_t_max))
       IN  IF hit # <<>>
           THEN /\ w_closest_so_far' = hit[1].t
                /\ w_hits' = Append(w_hits, hit[1])
           ELSE UNCHANGED <<w_closest_so_far, w_hits>>
    /\ w_idx' = w_idx + 1
    /\ UNCHANGED <<w_pc, w_objects, w_ray, w_t_min, w_t_max, w_result>>
    /\ UNCHANGED notWorld

\* hits.pop()
WorldHitReturn ==
    /\ w_pc = "loop"
    /\ w_idx > Len(w_objects)
    /\ w_result' = IF w_hits = <<>> THEN <<>> ELSE <<w_hits[Len(w_hits)]>>
    /\ w_hits' = IF w_hits = <<>> THEN <<>> ELSE SubSeq(w_hits, 1, Len(w_hits) - 1)
    /\ w_pc' = "done"
    /\ UNCHANGED <<w_objects, w_ray, w_t_min, w_t_max, w_idx, w_closest_so_far>>
    /\ UNCHANGED notWorld

NextWorld ==
    \/ WorldHitStep
    \/ WorldHitReturn

StartWorld ==
    InitWorld /\ IdleRenderer /\ IdleColor /\ IdleSample /\ IdleSchlick /\ IdleQuant
    /\ IdleSphere

SpecWorld ==
    /\ StartWorld
    /\ [][NextWorld]_vars

\* What each surface reports on its own over the whole range (t_min, t_max)
Reports ==
    {i \in DOMAIN w_objects :
        SphereHit(w_objects[i], i, w_ray, w_t_min, w_t_max) # <<>>}
ReportedT(i) == SphereHit(w_objects[i], i, w_ray, w_t_min, w_t_max)[1].t

\* C6: World::hit returns None when no surface reports a hit in (t_min, t_max),
\* and otherwise the hit of a surface whose t is the minimum over all surfaces
\* that report one, whatever the insertion order; on the way the bound handed
\* to the surfaces is the t of the best hit so far, and the hits recorded
\* come strictly nearer.
C6_WorldHitNearest ==
    /\ w_pc = "loop" =>
          /\ w_closest_so_far = IF w_hits = <<>> THEN w_t_max ELSE w_hits[Len(w_hits)].t
          /\ \A a, b \in DOMAIN w_hits : a < b => w_hits[b].t < w_hits[a].t
    /\ w_pc = "done" =>
          IF Reports = {}
          THEN w_result = <<>>
          ELSE /\ w_result # <<>>
               /\ w_result[1].object \in Reports
               /\ w_result[1] = SphereHit(w_objects[w_result[1].object], w_result[1].object,
                                          w_ray, w_t_min, w_t_max)[1]
               /\ \A i \in Reports : w_result[1].t <= ReportedT(i)

\* Witness of C6: the first surface inserted reports a hit, a later one is
\* nearer, and the later one is returned.
C6_Witness ==
    /\ w_pc = "done"
    /\ Len(w_objects) >= 2
    /\ 1 \in Reports
    /\ w_result # <<>>
    /\ w_result[1].object > 1
    /\ w_result[1].t < ReportedT(1)
    /\ w_result[1].object < Len(w_objects)
    /\ Len(w_objects) \in Reports

(***************************************************************************)
(* main.rs: color(), the recursive radiance estimator.                     *)
(* A colour is one channel; the Vec3 product is channel by channel.        *)
(***************************************************************************)
\* if depth < 50 && reflection.reflected
MAX_DEPTH == 50

\* Vec3::new(0.0, 0.0, 0.0)
Black == 0

\* The sky where t = 0: (1.0 - t) * Vec3::new(1.0, 1.0, 1.0) + t * ...
Background == 1

\* color's recursion test with the budget off by one.
ContinuesInclusive(depth, reflected) == depth <= MAX_DEPTH /\ reflected

\* color's recursion test: depth < 50 && reflection.reflected
Continues(depth, reflected) == depth < MAX_DEPTH /\ reflected

\* The scenes: in an open one a ray may miss and a material may absorb; in an
\* enclosed one every ray hits a surface whose material always continues.
\* c_albedo is the attenuation of the surfaces.
InitColor ==
    /\ c_scene \in {"open", "enclosed"}
    /\ c_albedo \in {0, 1}
    /\ c_pc = "call"
    /\ c_depth = 0
    /\ c_calls = 1
    /\ c_ret = Black
    /\ c_event = "none"

\* world.hit is None: the background colour is returned.
ColorMiss ==
    /\ c_pc = "call"
    /\ c_scene = "open"
    /\ c_ret' = Background
    /\ c_event' = "miss"
    /\ c_pc' = "return"
    /\ UNCHANGED <<c_scene, c_depth, c_albedo, c_calls>>
    /\ UNCHANGED notColor

\* world.hit is Some(h): scatter, then recurse with depth + 1 or return black.
ColorHit ==
    /\ c_pc = "call"
    /\ \E reflected \in (IF c_scene = "enclosed" THEN {TRUE} ELSE BOOLEAN) :
        IF Continues(c_depth, reflected)
        THEN /\ c_depth' = c_depth + 1
             /\ c_calls' = c_calls + 1
             /\ UNCHANGED <<c_pc, c_ret, c_event>>
        ELSE /\ c_ret' = Black
             /\ c_event' = IF reflected THEN "exhausted" ELSE "absorbed"
             /\ c_pc' = "return"
             /\ UNCHANGED <<c_depth, c_calls>>
    /\ UNCHANGED <<c_scene, c_albedo>>
    /\ UNCHANGED notColor

\* A nested invocation returns into: reflection.attenuation * color(...)
ColorReturn ==
    /\ c_pc = "return"
    /\ c_calls > 1
    /\ c_ret' = c_albedo * c_ret
    /\ c_depth' = c_depth - 1
    /\ c_calls' = c_calls - 1
    /\ UNCHANGED <<c_pc, c_scene, c_albedo, c_event>>
    /\ UNCHANGED notColor

\* The outermost invocation, color(r, world, 0), returns to render_line.
ColorDone ==
    /\ c_pc = "return"
    /\ c_calls = 1
    /\ c_pc' = "done"
    /\ UNCHANGED <<c_scene, c_depth, c_albedo, c_calls, c_ret, c_event>>
    /\ UNCHANGED notColor

NextColor ==
    \/ ColorMiss
    \/ ColorHit
    \/ ColorReturn
    \/ ColorDone

\* color is sequential code: it takes its next step whenever it has one.
StartColor ==
    InitColor /\ IdleRenderer /\ IdleWorld /\ IdleSample /\ IdleSchlick /\ IdleQuant
    /\ IdleSphere

SpecColor ==
    /\ StartColor
    /\ [][NextColor]_vars
    /\ WF_vars(NextColor)

\* C7: color(r, world, 0) terminates in every scene; the depth argument of
\* every invocation is at most 50 and at most 51 invocations are nested; a
\* hit with the budget exhausted or with a material that does not continue
\* yields black.
C7_ColorTerminates ==
    /\ [](c_pc # "idle" =>
            /\ c_depth <= 50
            /\ c_calls <= 51
            /\ c_calls = c_depth + 1
            /\ (c_event \in {"exhausted", "absorbed"} => c_ret = Black))
    /\ [][c_event' = "exhausted" /\ c_event # "exhausted" => c_depth = 50 /\ c_depth' = 50]_vars
    /\ <>(c_pc = "done")

\* Witness of C7: in the enclosed scene the outermost invocation has returned,
\* black, after the bounce budget ran out.
C7_Witness ==
    /\ c_pc = "done"
    /\ c_scene = "enclosed"
    /\ c_event = "exhausted"
    /\ c_ret = 0
    /\ c_calls = 1

(***************************************************************************)
(* hittable.rs: random_in_unit_sphere().                                   *)
(* rng.gen::<f32>() is uniform on [0, 1): a draw is u / GridDen for u in   *)
(* 0..GridDen-1, and a component is held as its numerator over GridDen.    *)
(***************************************************************************)
GridDen == 4
MaxIter == 3

Draws == 0..(GridDen - 1)

\* Vec3::squared_length, times GridDen^2
SquaredLength(v) == v[1] * v[1] + v[2] * v[2] + v[3] * v[3]

\* vec.squared_length() >= 1.0
AtLeastOne(v) == SquaredLength(v) >= GridDen * GridDen

InitSample ==
    /\ s_pc = "start"
    /\ s_vec = <<0, 0, 0>>
    /\ s_iter = 0

\* let mut vec: Vec3 = 2.0 * Vec3::new(rng.gen(), rng.gen(), rng.gen());
SampleFirst ==
    /\ s_pc = "start"
    /\ \E u0, u1, u2 \in Draws : s_vec' = <<2 * u0, 2 * u1, 2 * u2>>
    /\ s_pc' = "loop"
    /\ UNCHANGED s_iter
    /\ UNCHANGED notSample

\* if vec.squared_length() >= 1.0 { return vec }
SampleReturn ==
    /\ s_pc = "loop"
    /\ AtLeastOne(s_vec)
    /\ s_pc' = "returned"
    /\ UNCHANGED <<s_vec, s_iter>>
    /\ UNCHANGED notSample

\* vec.e[0] = rng.gen(); vec.e[1] = rng.gen(); vec.e[2] = rng.gen();
\* s_iter counts the resamplings, up to MaxIter.
SampleAgain ==
    /\ s_pc = "loop"
    /\ ~AtLeastOne(s_vec)
    /\ \E u0, u1, u2 \in Draws : s_vec' = <<u0, u1, u2>>
    /\ s_iter' = IF s_iter < MaxIter THEN s_iter + 1 ELSE s_iter
    /\ UNCHANGED s_pc
    /\ UNCHANGED notSample

NextSample ==
    \/ SampleFirst
    \/ SampleReturn
    \/ SampleAgain

StartSample ==
    InitSample /\ IdleRenderer /\ IdleWorld /\ IdleColor /\ IdleSchlick /\ IdleQuant
    /\ IdleSphere

SpecSample ==
    /\ StartSample
    /\ [][NextSample]_vars

\* C8: every vector random_in_unit_sphere returns has squared length
\* strictly less than 1.
C8_ReturnsInsideUnitBall ==
    s_pc = "returned" => SquaredLength(s_vec) < GridDen * GridDen

(***************************************************************************)
(* hittable.rs: schlick().                                                 *)
(* cosine is k_cosine / CosDen and ref_idx is k_ref_idx / 2; the result is *)
(* a fraction <<numerator, denominator>>.                                  *)
(***************************************************************************)
CosDen == 8
MaxRefIdx2 == 6

\* f32 as i32: the fraction num / den truncated toward zero
TruncToI32(num, den) == IF num >= 0 THEN num \div den ELSE -((-num) \div den)

\* i32::pow(5)
Pow5(x) == x * x * x * x * x

\* r0 = (1.0 - ref_idx) / (1.0 + ref_idx); r0 *= r0
R0(ref2) == <<(2 - ref2) * (2 - ref2), (2 + ref2) * (2 + ref2)>>

\* r0 + (1.0 - r0) * (((1.0 - cosine) as i32).pow(5)) as f32
Schlick(cosine, ref2) ==
    LET r0 == R0(ref2)
        p  == Pow5(TruncToI32(CosDen - cosine, CosDen))
    IN  <<r0[1] + (r0[2] - r0[1]) * p, r0[2]>>

InitSchlick ==
    /\ k_pc = "call"
    /\ k_cosine \in 0..(2 * CosDen)
    /\ k_ref_idx \in 1..MaxRefIdx2
    /\ k_result = <<>>

SchlickCall ==
    /\ k_pc = "call"
    /\ k_result' = Schlick(k_cosine, k_ref_idx)
    /\ k_pc' = "done"
    /\ UNCHANGED <<k_cosine, k_ref_idx>>
    /\ UNCHANGED notSchlick

NextSchlick == SchlickCall

StartSchlick ==
    InitSchlick /\ IdleRenderer /\ IdleWorld /\ IdleColor /\ IdleSample /\ IdleQuant
    /\ IdleSphere

SpecSchlick ==
    /\ StartSchlick
    /\ [][NextSchlick]_vars

\* Fractions with positive denominators
FracEq(x, y) == x[1] * y[2] = y[1] * x[2]
FracLess(x, y) == x[1] * y[2] < y[1] * x[2]

\* r0 + (1 - r0) * (1 - cosine)^5, exactly
SchlickExact(cosine, ref2) ==
    LET r0 == R0(ref2)
    IN  <<r0[1] * Pow5(CosDen) + (r0[2] - r0[1]) * Pow5(CosDen - cosine),
          r0[2] * Pow5(CosDen)>>

\* C9: for every cosine in [0, 1], schlick(cosine, ref_idx) is
\* r0 + (1 - r0) * (1 - cosine)^5, and for 0 < cosine < 1 it lies strictly
\* between r0 and 1.
C9_SchlickIsFifthPower ==
    k_pc = "done" /\ k_cosine <= CosDen =>
        /\ FracEq(k_result, SchlickExact(k_cosine, k_ref_idx))
        /\ (0 < k_cosine /\ k_cosine < CosDen =>
                /\ FracLess(R0(k_ref_idx), k_result)
                /\ FracLess(k_result, <<1, 1>>))

(***************************************************************************)
(* main.rs: one pixel of render_line(): the samples are summed, averaged,  *)
(* gamma-corrected and converted to bytes.                                 *)
(* A channel is held as its numerator over QDen^2 until the square root    *)
(* and over QDen after it.                                                 *)
(***************************************************************************)
QDen == 4
NSamples == 2

\* The channel values color() returns here, over QDen^2 (0, 0.25, 1.0, 1.75 and
\* 2.25 when QDen is 4)
\* (an albedo above 1 makes a channel exceed 1).
ChannelValues == {0, 4, 16, 28, 36}

\* The sums on which the model's arithmetic is the code's: the average is
\* whole and its square root exact.
ExactChannel(sum) == sum % NSamples = 0 /\ IsSquare(sum \div NSamples)

\* col /= NS as f32; col.e[n] = col.e[n].sqrt()   (result over QDen)
Gamma(sum) == Sqrt(sum \div NSamples)

\* floor(255.99 * channel), channel over QDen
Scaled(ch) == (25599 * ch) \div (100 * QDen)

\* f32 as u8. A value in 0..255 converts to itself. For a larger one the
\* cast saturates (rustc 1.45 and later) or is undefined (before), where the
\* usual outcome is the low byte of the truncated integer.
AsU8(v) == IF v <= 255 THEN {v} ELSE {255, v % 256}

InitQuant ==
    /\ q_pc = "sample"
    /\ q_col = <<0, 0, 0>>
    /\ q_sample = 0
    /\ q_bytes = <<>>

\* for _ in 0..NS { ... col += color(&r, &world, 0); }
QuantSample ==
    /\ q_pc = "sample"
    /\ q_sample < NSamples
    /\ \E c0, c1, c2 \in ChannelValues :
        /\ q_col' = <<q_col[1] + c0, q_col[2] + c1, q_col[3] + c2>>
        /\ q_sample + 1 = NSamples => \A n \in 1..3 : ExactChannel(q_col'[n])
    /\ q_sample' = q_sample + 1
    /\ UNCHANGED <<q_pc, q_bytes>>
    /\ UNCHANGED notQuant

\* col /= NS as f32; and the gamma adjustment
QuantGamma ==
    /\ q_pc = "sample"
    /\ q_sample = NSamples
    /\ q_col' = <<Gamma(q_col[1]), Gamma(q_col[2]), Gamma(q_col[3])>>
    /\ q_pc' = "convert"
    /\ UNCHANGED <<q_sample, q_bytes>>
    /\ UNCHANGED notQuant

\* let ir: u8 = (255.99 * col.r()) as u8; ... data.push(ir); data.push(ig); data.push(ib);
QuantPush ==
    /\ q_pc = "convert"
    /\ \E ir \in AsU8(Scaled(q_col[1])), ig \in AsU8(Scaled(q_col[2])),
          ib \in AsU8(Scaled(q_col[3])) :
        q_bytes' = q_bytes \o <<ir, ig, ib>>
    /\ q_pc' = "pushed"
    /\ UNCHANGED <<q_col, q_sample>>
    /\ UNCHANGED notQuant

NextQuant ==
    \/ QuantSample
    \/ QuantGamma
    \/ QuantPush

StartQuant ==
    InitQuant /\ IdleRenderer /\ IdleWorld /\ IdleColor /\ IdleSample /\ IdleSchlick
    /\ IdleSphere

SpecQuant ==
    /\ StartQuant
    /\ [][NextQuant]_vars

\* min(channel, 1), channel over QDen
Clamped(ch) == IF ch > QDen THEN QDen ELSE ch

\* C10: every byte pushed is floor(255.99 * min(channel, 1)), a value of
\* 0..255, also for a channel above 1.0.
C10_BytesAreClamped ==
    q_pc = "pushed" =>
        \A n \in 1..3 :
            /\ q_bytes[n] = Scaled(Clamped(q_col[n]))
            /\ q_bytes[n] \in 0..255

(***************************************************************************)
(* hittable.rs: Sphere::hit called on its own.                             *)
(***************************************************************************)
\* Sphere::hit as a call: fn hit(&self, r: &Ray, t_min: f32, t_max: f32) -> Option<Hit>
SphereHitCall(sphere, r, t_min, t_max) == SphereHit(sphere, 1, r, t_min, t_max)

\* The spheres Sphere::hit is called on: on, beside, touching and off the
\* ray's line, in front of the origin, around it and behind it.
HitSpheres ==
    {[center |-> <<x, 0, z>>, radius |-> rad] :
        x \in {0, 3, 4, 5, 6}, z \in {-10, -3, 0, 30}, rad \in {3, 5}}

StartSphere ==
    /\ h_ray \in Rays
    /\ h_sphere \in {sp \in HitSpheres : Exact(sp, h_ray)}
    /\ h_t_min \in TMins
    /\ h_t_max \in TMaxs
    /\ h_pc = "call"
    /\ h_result = <<>>
    /\ IdleRenderer /\ IdleWorld /\ IdleColor /\ IdleSample /\ IdleSchlick /\ IdleQuant

SphereHitReturn ==
    /\ h_pc = "call"
    /\ h_result' = SphereHitCall(h_sphere, h_ray, h_t_min, h_t_max)
    /\ h_pc' = "done"
    /\ UNCHANGED <<h_sphere, h_ray, h_t_min, h_t_max>>
    /\ UNCHANGED notSphere

NextSphere == SphereHitReturn

SpecSphere ==
    /\ StartSphere
    /\ [][NextSphere]_vars

\* The parameters the claims look for roots among
TRange == -100..100

\* t solves a*t^2 + 2*b*t + c = 0, i.e. the point r(t) lies on the sphere ...
OnSphere(sphere, r, t) ==
    LET p == PointAtParameter(r, t)
    IN  Dot(VSub(p, sphere.center), VSub(p, sphere.center)) = sphere.radius * sphere.radius

\* ... and it is the smaller, or the larger, of the two solutions: the ray
\* enters the sphere there, or leaves it.
IsSmallerRoot(sphere, r, t) ==
    OnSphere(sphere, r, t) /\ Dot(VSub(PointAtParameter(r, t), sphere.center), r.b) < 0
IsLargerRoot(sphere, r, t) ==
    OnSphere(sphere, r, t) /\ Dot(VSub(PointAtParameter(r, t), sphere.center), r.b) > 0

\* C11: Sphere::hit reports a miss when the discriminant b^2 - a*c is <= 0;
\* otherwise it looks at the smaller root alone: it returns a hit with that
\* t iff t_min < t < t_max and None when the smaller root is outside the
\* range, also when the larger root is inside it.
C11_OnlyNearerRoot ==
    h_pc = "done" =>
        IF Discriminant(h_sphere, h_ray) <= 0
        THEN h_result = <<>>
        ELSE \E t \in TRange :
                /\ IsSmallerRoot(h_sphere, h_ray, t)
                /\ IF h_t_min < t /\ t < h_t_max
                   THEN /\ h_result # <<>>
                        /\ h_result[1].t = t
                        /\ h_result[1].p = PointAtParameter(h_ray, t)
                   ELSE h_result = <<>>

\* Witness of C11: the smaller root is outside the range, the larger root
\* inside it, and the call returned None.
C11_Witness ==
    /\ h_pc = "done"
    /\ Discriminant(h_sphere, h_ray) > 0
    /\ \E t \in TRange :
          IsSmallerRoot(h_sphere, h_ray, t) /\ ~(h_t_min < t /\ t < h_t_max)
    /\ \E t \in TRange :
          IsLargerRoot(h_sphere, h_ray, t) /\ h_t_min < t /\ t < h_t_max
    /\ h_result = <<>>

\* A tangent ray (discriminant 0) was reported as a miss.
C11_TangentReached ==
    h_pc = "done" /\ Discriminant(h_sphere, h_ray) = 0 /\ h_result = <<>>

(***************************************************************************)
(* hittable.rs: random_in_unit_sphere() as running code.                   *)
(***************************************************************************)
\* The function is sequential code: it takes its next step whenever it has
\* one. What the draws are is up to the generator.
SpecSampleFair ==
    /\ StartSample
    /\ [][NextSample]_vars
    /\ WF_vars(NextSample)

\* C12: for every sequence of draws random_in_unit_sphere ends, by a return
\* or by an error once its cap of resamplings is exceeded; it cannot go on
\* resampling without bound.
C12_SamplingEnds == <>(s_pc \notin {"start", "loop"})

(***************************************************************************)
(* The frame buffer of the renderer.                                       *)
(***************************************************************************)
\* The indexes of the buffer, NY * pitch bytes, and of its last row
BufferIndexes == 0..(ny * 3 * nx - 1)
LastRow == ((ny - 1) * 3 * nx)..(ny * 3 * nx - 1)

\* How many times a byte of the buffer has been written
WriteCount(i) ==
    Cardinality({<<k, n>> \in (DOMAIN writes) \X (1..(3 * MaxNX + 3)) :
                    n \in DOMAIN writes[k] /\ writes[k][n] = i})

\* What has been written so far is inside the buffer and no byte twice, and
\* once NY results are received every byte has been written exactly once.
WritesInPlace ==
    /\ \A k \in DOMAIN writes : \A n \in DOMAIN writes[k] : writes[k][n] \in BufferIndexes
    /\ \A i \in BufferIndexes : WriteCount(i) <= 1
    /\ Len(arrivals) = ny =>
          \A i \in BufferIndexes : WriteCount(i) = 1 /\ buffer[i] # Unwritten

\* A worker's step from line l sends a result of 3 * NX bytes whose offset
\* is (NY - 1 - l) * 3 * NX; the bytes of line 0 go to the last row.
SendsLineInPlace ==
    \A k \in DOMAIN workers :
        workers[k].state = "running" /\ Len(channel') = Len(channel) + 1
        /\ workers'[k] # workers[k] =>
            LET l == workers[k].line
                m == channel'[Len(channel')]
            IN  /\ l \in 0..(ny - 1)
                /\ Len(m.data) = 3 * nx
                /\ m.offset = (ny - 1 - l) * (3 * nx)
                /\ \A n \in 0..(Len(m.data) - 1) : m.offset + n \in BufferIndexes
                /\ l = 0 => {m.offset + n : n \in 0..(Len(m.data) - 1)} = LastRow

\* C13: render_line produces, for every line of [0, NY), exactly 3 * NX bytes
\* with offset (NY - 1 - line) * pitch; every write of the consumer stays
\* inside the buffer, no byte is written by two lines, line 0 lands in the
\* last row, and after NY rows every byte has been written exactly once.
C13_FrameBufferInvariant ==
    /\ WritesInPlace
    /\ [][SendsLineInPlace /\ WritesInPlace']_vars

\* Witness of C13: a render of several rows and columns by several workers
\* whose NY rows have all been received.
C13_Witness ==
    /\ Len(arrivals) = ny
    /\ ny >= 3
    /\ nx >= 2
    /\ num_threads >= 3
    /\ \A i \in BufferIndexes : WriteCount(i) = 1

====
